---- MODULE Spec2Model ----
(***************************************************************************)
(* Sports-Scheduler: the session lifecycle and the roster (UserSessions)   *)
(* as the Express routes drive them.  Every request handler is cut at its  *)
(* awaited database calls: the part of a handler between two awaits is one *)
(* atomic step, and steps of different requests interleave freely.         *)
(***************************************************************************)
EXTENDS Integers, Sequences, FiniteSets, Bags, TLC

VARIABLES
    users,          \* table Users: sequence of rows, id = index
    sports,         \* table Sports: sequence of rows, id = index
    sessions,       \* table Sessions: sequence of rows, id = index
    userSessions,   \* table UserSessions: number of rows per <<userId, sessionId>>
    now,            \* wall clock (new Date()), in instants
    req,            \* the requests in flight (a bag of handler activations)
    view            \* the page the last GET handler rendered (res.render)

vars == <<users, sports, sessions, userSessions, now, req, view>>

----------------------------------------------------------------------------
\* Bounds of the model

MaxSessions == 1        \* rows the Sessions table may hold
MaxSports == 2          \* rows the Sports table may hold
MaxInFlight == 2        \* requests that may be in flight at once
MaxEditsInFlight == 1   \* ... of which update and cancel requests
MaxDay == 1             \* calendar days 0..MaxDay
TimesPerDay == 2        \* wall-clock times per day
NumPlayers == 2         \* users with role player (one admin besides)
PlayersNeededInputs == 2 \* largest valid playersNeeded a form submits
ViewRows == 12          \* rows of the Sessions table the list pages read

----------------------------------------------------------------------------
\* Program constants

VenueMin == 2
VenueMax == 200
PlayersMin == 1
PlayersMax == 50
ReasonMin == 10
ReasonMax == 500
SportNameMin == 2
SportNameMax == 50
UserNameMin == 2
UserNameMax == 100
PasswordMin == 6

----------------------------------------------------------------------------
\* Strings as sequences of characters

Rep(c, n) == [i \in 1..n |-> c]

RECURSIVE TrimLeft(_)
TrimLeft(s) == IF s # <<>> /\ Head(s) = " " THEN TrimLeft(Tail(s)) ELSE s

RECURSIVE TrimRight(_)
TrimRight(s) ==
    IF s # <<>> /\ s[Len(s)] = " " THEN TrimRight(SubSeq(s, 1, Len(s) - 1)) ELSE s

trim(s) == TrimRight(TrimLeft(s))

----------------------------------------------------------------------------
\* Ids and input domains

UserIds == 1..(NumPlayers + 1)
Callers == {0} \cup UserIds      \* 0: a request without a login
SessionIds == 1..MaxSessions
NoSuchSport == MaxSports + 1
Dates == 0..MaxDay
Times == 0..(TimesPerDay - 1)
LastNow == MaxDay * TimesPerDay      \* the clock stops when the last day begins
\* the reasons a cancel form submits: one character short, the shortest
\* valid one, the longest valid one followed by a blank, and one character
\* too long
ReasonInputs ==
    {Rep("x", ReasonMin - 1), Rep("x", ReasonMin),
     Rep("x", ReasonMax) \o <<" ">>, Rep("x", ReasonMax + 1)}

NoReason == <<>>          \* cancellationReason NULL
NoView == [kind |-> "none"]      \* no page rendered yet
NoBody == [sportId |-> 0, date |-> 0, time |-> 0, venue |-> <<>>,
           playersNeeded |-> 0, reason |-> <<>>]
Body(sp, d, t, v, n) ==
    [sportId |-> sp, date |-> d, time |-> t, venue |-> v, playersNeeded |-> n,
     reason |-> <<>>]
\* The bodies the forms submit.  The create form names the first sport and
\* venue " AB", the edit form the second sport and venue "CD ", so that an
\* update changes both; dates, times and playersNeeded range over all values.
\* Besides, for each field but the date, one body whose only flaw is that field.
FormBodies(sp, v) ==
    { Body(sp, d, t, v, n) : d \in Dates, t \in Times, n \in 1..PlayersNeededInputs }
    \cup { Body(sp, MaxDay, 0, <<"A">>, 1), Body(NoSuchSport, MaxDay, 0, v, 1),
           Body(sp, MaxDay, 0, v, 0), Body(sp, MaxDay, 0, v, PlayersMax + 1) }
CreateBodies == FormBodies(1, <<" ", "A", "B">>)
UpdateBodies == FormBodies(MaxSports, <<"C", "D", " ">>)
\* a handler suspended at an await: its route, req.user.id, req.params.id,
\* the call it awaits, the playersNeeded of the instance findByPk returned
\* and req.body
Request(kind, u, sid, pc, playersNeeded, body) ==
    [kind |-> kind, user |-> u, sid |-> sid, pc |-> pc,
     playersNeeded |-> playersNeeded, body |-> body]

----------------------------------------------------------------------------
\* Session model (models/session.js)

DateOf(instant) == instant \div TimesPerDay
sessionDateTime(s) == s.date * TimesPerDay + s.time
isPast(s) == sessionDateTime(s) < now

exists(sid) == sid \in 1..Len(sessions)
RECURSIVE countRows(_, _)
countRows(n, sid) ==
    IF n = 0 THEN 0 ELSE userSessions[<<n, sid>>] + countRows(n - 1, sid)
countPlayers(sid) == countRows(NumPlayers + 1, sid)
getPlayers(sid) == {u \in UserIds : userSessions[<<u, sid>>] > 0}
hasUserJoined(sid, userId) == userId \in getPlayers(sid)
\* isFull that lets one more in
isFull_offByOne(sid, playersNeeded) == countPlayers(sid) > playersNeeded

isFull(sid, playersNeeded) == countPlayers(sid) >= playersNeeded

\* Math.max
max(a, b) == IF a >= b THEN a ELSE b

\* getAvailableSlots without Math.max
getAvailableSlots_unclamped(sid, playersNeeded) == playersNeeded - countPlayers(sid)

\* Session.getAvailableSlots
getAvailableSlots(sid, playersNeeded) == max(0, playersNeeded - countPlayers(sid))

\* Session.addPlayerToSession(userId): the error it throws, "" when it goes
\* on to addPlayer
addPlayerToSession(sid, userId) ==
    IF userId \notin 1..Len(users) THEN "User not found"
    ELSE IF isFull(sid, sessions[sid].playersNeeded) THEN "Session is full"
    ELSE IF isPast(sessions[sid]) THEN "Cannot join past sessions"
    ELSE IF hasUserJoined(sid, userId) THEN "User already joined this session"
    ELSE ""

\* the UserSessions table without its unique constraint
unique_user_session_dropped(u, sid) == TRUE

\* the composite unique constraint of the UserSessions table
unique_user_session(u, sid) == userSessions[<<u, sid>>] = 0

----------------------------------------------------------------------------
\* A Sessions row as Session.create stores it (status defaults to active,
\* cancellationReason to NULL).
NewSession(u, body) ==
    [sportId |-> body.sportId, creatorId |-> u, date |-> body.date,
     time |-> body.time, venue |-> trim(body.venue),
     playersNeeded |-> body.playersNeeded,
     status |-> "active", cancellationReason |-> NoReason]

\* cancelSession that sets the status and forgets the reason
cancelSession_statusOnly(s, reason) == [s EXCEPT !.status = "cancelled"]

\* Session.cancelSession: sets status and cancellationReason, then saves.
cancelSession(s, reason) ==
    [s EXCEPT !.status = "cancelled", !.cancellationReason = reason]

\* an update that also writes the status back to its default
updateSession_reactivates(s, body) ==
    [s EXCEPT !.sportId = body.sportId, !.date = body.date, !.time = body.time,
              !.venue = trim(body.venue), !.playersNeeded = body.playersNeeded,
              !.status = "active"]

\* an update that leaves the venue as it was
updateSession_keepsVenue(s, body) ==
    [s EXCEPT !.sportId = body.sportId, !.date = body.date, !.time = body.time,
              !.playersNeeded = body.playersNeeded]

\* session.update({sportId, date, time, venue, playersNeeded})
updateSession(s, body) ==
    [s EXCEPT !.sportId = body.sportId, !.date = body.date, !.time = body.time,
              !.venue = trim(body.venue), !.playersNeeded = body.playersNeeded]

\* The validators of Session.init and the foreign key of sportId, which
\* session.update runs before it writes.
ModelAccepts(body) ==
    /\ Len(trim(body.venue)) >= VenueMin /\ Len(trim(body.venue)) <= VenueMax
    /\ body.playersNeeded >= PlayersMin /\ body.playersNeeded <= PlayersMax
    /\ body.sportId \in 1..Len(sports)

----------------------------------------------------------------------------
\* express-validator chains of the session routes: the messages of the
\* fields that fail, in the order of the chain.

ValidationErrors(body) ==
    (IF body.date < DateOf(now)
        THEN <<"Session date must be in the future">> ELSE <<>>)
    \o (IF Len(trim(body.venue)) < VenueMin \/ Len(trim(body.venue)) > VenueMax
        THEN <<"Venue must be between 2 and 200 characters">> ELSE <<>>)
    \o (IF body.playersNeeded < PlayersMin \/ body.playersNeeded > PlayersMax
        THEN <<"Players needed must be between 1 and 50">> ELSE <<>>)

\* POST /sessions/:id/update declares no validation chain: validationResult
\* is empty for every body.
NoValidationErrors(body) == <<>>

\* the reason validator without its upper limit
ReasonErrors_noUpperLimit(reason) ==
    IF Len(trim(reason)) < ReasonMin
    THEN <<"Cancellation reason must be between 10 and 500 characters">>
    ELSE <<>>

\* the reason check without the lower limit
ReasonErrors_noLowerLimit(reason) ==
    IF Len(trim(reason)) > ReasonMax
    THEN <<"Cancellation reason must be between 10 and 500 characters">>
    ELSE <<>>

ReasonErrors(reason) ==
    IF Len(trim(reason)) < ReasonMin \/ Len(trim(reason)) > ReasonMax
    THEN <<"Cancellation reason must be between 10 and 500 characters">>
    ELSE <<>>

\* middleware/auth.js.  Caller 0 is a request without a login (req.user is
\* not set); "" stands for next().

\* ensureAuthenticated that lets everyone through
ensureAuthenticated_open(u) == ""

ensureAuthenticated(u) ==
    IF u # 0 THEN "" ELSE "Please log in to access this page"

\* ensureAdmin that asks for a login only
ensureAdmin_anyRole(u) ==
    IF u # 0 THEN "" ELSE "Access denied. Admin privileges required."

ensureAdmin(u) ==
    IF u # 0 /\ users[u].role = "admin" THEN ""
    ELSE "Access denied. Admin privileges required."

\* ensurePlayer that admits the player role only
ensurePlayer_playersOnly(u) ==
    IF u # 0 /\ users[u].role = "player" THEN ""
    ELSE "Access denied. Player account required."

ensurePlayer(u) ==
    IF u # 0 /\ (users[u].role = "player" \/ users[u].role = "admin") THEN ""
    ELSE "Access denied. Player account required."

\* router.use(ensureAuthenticated, ensurePlayer) of the session and player
\* routers, router.use(ensureAuthenticated, ensureAdmin) of the admin router,
\* router.use(ensureAuthenticated) of the sports router
PlayerRouter(u) ==
    IF ensureAuthenticated(u) # "" THEN ensureAuthenticated(u) ELSE ensurePlayer(u)
AdminRouter(u) ==
    IF ensureAuthenticated(u) # "" THEN ensureAuthenticated(u) ELSE ensureAdmin(u)
SportsRouter(u) == ensureAuthenticated(u)

\* the ownership check without the admin's pass
isCreatorOrAdmin_creatorOnly(s, u) == s.creatorId = u

isCreatorOrAdmin(s, u) == s.creatorId = u \/ users[u].role = "admin"

----------------------------------------------------------------------------
Init ==
    /\ users = <<[email |-> 0, role |-> "admin"]>>
                \o [i \in 1..NumPlayers |-> [email |-> i, role |-> "player"]]
    /\ sports = [i \in 1..MaxSports |-> [name |-> Rep("S", i + 1), adminId |-> 1]]
    /\ sessions = <<>>
    /\ userSessions = [p \in UserIds \X SessionIds |-> 0]
    /\ now = 1
    /\ req = EmptyBag
    /\ view = NoView

InFlight == BagToSet(req)
isEdit(q) == q.kind \in {"put", "post", "cancel"}
EditsInFlight == BagCardinality([q \in {e \in InFlight : isEdit(e)} |-> req[q]])

\* the server takes a new request
Take == BagCardinality(req) < MaxInFlight
TakeEdit == Take /\ EditsInFlight < MaxEditsInFlight

\* a handler answers at once (flash and redirect): nothing is awaited
Reject == UNCHANGED req

\* a new handler suspends at its first awaited write
Suspend(q) == req' = req (+) SetToBag({q})

\* a suspended handler goes on to its next await
Resume(q, pc) == req' = (req (-) SetToBag({q})) (+) SetToBag({[q EXCEPT !.pc = pc]})

\* a suspended handler answers and ends
Reply(q) == req' = req (-) SetToBag({q})

\* The clock advances between steps.
Tick ==
    /\ now < LastNow
    /\ now' = now + 1
    /\ UNCHANGED <<users, sports, sessions, userSessions, req, view>>

----------------------------------------------------------------------------
\* POST /sessions.  Each handler's flash message is an operator of the state
\* the step starts in; "" stands for no message (the handler goes on).

\* the create handler without the lookup of the sport
CreateFlash_noSportCheck(u, body) ==
    IF PlayerRouter(u) # "" THEN PlayerRouter(u)
    ELSE IF ValidationErrors(body) # <<>> THEN Head(ValidationErrors(body))
    ELSE "session created successfully!"

CreateFlash(u, body) ==
    IF PlayerRouter(u) # "" THEN PlayerRouter(u)
    ELSE IF ValidationErrors(body) # <<>> THEN Head(ValidationErrors(body))
    ELSE IF body.sportId \notin 1..Len(sports) THEN "Selected sport not found"
    ELSE "session created successfully!"

Create(u, body) ==
    /\ Take
    /\ IF CreateFlash(u, body) = "session created successfully!"
       THEN /\ Len(sessions) < MaxSessions
            /\ sessions' = Append(sessions, NewSession(u, body))
       ELSE UNCHANGED sessions
    /\ Reject
    /\ UNCHANGED <<users, sports, userSessions, now, view>>

----------------------------------------------------------------------------
\* POST /player/sessions/:id/join

\* the join checks without the own-session check
JoinRejection_noOwnCheck(u, sid) ==
    IF PlayerRouter(u) # "" THEN PlayerRouter(u)
    ELSE IF ~exists(sid) THEN "Session not found"
    ELSE IF isPast(sessions[sid]) THEN "Cannot join past sessions"
    ELSE IF sessions[sid].status = "cancelled" THEN "Cannot join cancelled sessions"
    ELSE ""

\* the join checks without the past-session check
JoinRejection_noPastCheck(u, sid) ==
    IF PlayerRouter(u) # "" THEN PlayerRouter(u)
    ELSE IF ~exists(sid) THEN "Session not found"
    ELSE IF sessions[sid].status = "cancelled" THEN "Cannot join cancelled sessions"
    ELSE IF sessions[sid].creatorId = u THEN "You cannot join your own session"
    ELSE ""

\* the join checks without the status check
JoinRejection_noCancelledCheck(u, sid) ==
    IF PlayerRouter(u) # "" THEN PlayerRouter(u)
    ELSE IF ~exists(sid) THEN "Session not found"
    ELSE IF isPast(sessions[sid]) THEN "Cannot join past sessions"
    ELSE IF sessions[sid].creatorId = u THEN "You cannot join your own session"
    ELSE ""

\* the join checks with the own-session check made first
JoinRejection_ownFirst(u, sid) ==
    IF PlayerRouter(u) # "" THEN PlayerRouter(u)
    ELSE IF ~exists(sid) THEN "Session not found"
    ELSE IF sessions[sid].creatorId = u THEN "You cannot join your own session"
    ELSE IF isPast(sessions[sid]) THEN "Cannot join past sessions"
    ELSE IF sessions[sid].status = "cancelled" THEN "Cannot join cancelled sessions"
    ELSE ""

\* the checks made on the instance findByPk returned
JoinRejection(u, sid) ==
    IF PlayerRouter(u) # "" THEN PlayerRouter(u)
    ELSE IF ~exists(sid) THEN "Session not found"
    ELSE IF isPast(sessions[sid]) THEN "Cannot join past sessions"
    ELSE IF sessions[sid].status = "cancelled" THEN "Cannot join cancelled sessions"
    ELSE IF sessions[sid].creatorId = u THEN "You cannot join your own session"
    ELSE ""

\* ... up to the await of hasUserJoined
JoinLoad(u, sid) ==
    /\ Take
    /\ IF JoinRejection(u, sid) # ""
       THEN Reject
       ELSE Suspend(Request("join", u, sid, "hasUserJoined",
                            sessions[sid].playersNeeded, NoBody))
    /\ UNCHANGED <<users, sports, sessions, userSessions, now, view>>

\* ... the duplicate-join check, up to the await of isFull
JoinHasUserJoinedFlash(q) ==
    IF hasUserJoined(q.sid, q.user) THEN "You have already joined this session" ELSE ""

JoinHasUserJoined(q) ==
    /\ q.kind = "join" /\ q.pc = "hasUserJoined"
    /\ IF JoinHasUserJoinedFlash(q) # "" THEN Reply(q) ELSE Resume(q, "isFull")
    /\ UNCHANGED <<users, sports, sessions, userSessions, now, view>>

\* ... the capacity check (the count is read now, playersNeeded is the one
\* findByPk loaded), up to the await of addPlayer
JoinIsFullFlash(q) ==
    IF isFull(q.sid, q.playersNeeded) THEN "This session is full" ELSE ""

\* the answer of the handler's checks when they run one after the other with
\* no step of another request in between; "" when all of them pass
JoinChecks(u, sid) ==
    IF JoinRejection(u, sid) # "" THEN JoinRejection(u, sid)
    ELSE IF JoinHasUserJoinedFlash(Request("join", u, sid, "hasUserJoined",
                                           sessions[sid].playersNeeded, NoBody)) # ""
        THEN "You have already joined this session"
    ELSE JoinIsFullFlash(Request("join", u, sid, "isFull",
                                 sessions[sid].playersNeeded, NoBody))

JoinIsFull(q) ==
    /\ q.kind = "join" /\ q.pc = "isFull"
    /\ IF JoinIsFullFlash(q) # "" THEN Reply(q) ELSE Resume(q, "addPlayer")
    /\ UNCHANGED <<users, sports, sessions, userSessions, now, view>>

\* session.addPlayer(req.user): inserts the UserSessions row unless the pair
\* is there already
addPlayer(u, sid) ==
    IF unique_user_session(u, sid)
    THEN [userSessions EXCEPT ![<<u, sid>>] = @ + 1]
    ELSE userSessions

\* ... the messages the write may end with.  When the pair is there already
\* the association is either found in place (success) or the insert hits
\* unique_user_session and the catch block flashes error.message.
JoinAddPlayerFlashes(q) ==
    IF unique_user_session(q.user, q.sid)
    THEN {"Successfully joined"}
    ELSE {"Successfully joined", "Validation error"}

JoinAddPlayer(q) ==
    /\ q.kind = "join" /\ q.pc = "addPlayer"
    /\ userSessions' = addPlayer(q.user, q.sid)
    /\ Reply(q)
    /\ UNCHANGED <<users, sports, sessions, now, view>>

----------------------------------------------------------------------------
\* POST /player/sessions/:id/leave

\* the leave checks with past sessions frozen against leaving
LeaveRejection_pastFrozen(u, sid) ==
    IF PlayerRouter(u) # "" THEN PlayerRouter(u)
    ELSE IF ~exists(sid) THEN "Session not found"
    ELSE IF isPast(sessions[sid]) THEN "Cannot leave past sessions"
    ELSE IF ~hasUserJoined(sid, u) THEN "You have not joined this session"
    ELSE ""

LeaveRejection(u, sid) ==
    IF PlayerRouter(u) # "" THEN PlayerRouter(u)
    ELSE IF ~exists(sid) THEN "Session not found"
    ELSE IF ~hasUserJoined(sid, u) THEN "You have not joined this session"
    ELSE ""

\* ... up to the await of removePlayer
LeaveLoad(u, sid) ==
    /\ Take
    /\ IF LeaveRejection(u, sid) # ""
       THEN Reject
       ELSE Suspend(Request("leave", u, sid, "removePlayer", 0, NoBody))
    /\ UNCHANGED <<users, sports, sessions, userSessions, now, view>>

\* removePlayer that empties the roster of the session
removePlayer_allRows(u, sid) ==
    [p \in DOMAIN userSessions |-> IF p[2] = sid THEN 0 ELSE userSessions[p]]

\* session.removePlayer(req.user): deletes the rows of the pair
removePlayer(u, sid) == [userSessions EXCEPT ![<<u, sid>>] = 0]

LeaveRemovePlayerFlash(q) == "Successfully left"

LeaveRemovePlayer(q) ==
    /\ q.kind = "leave" /\ q.pc = "removePlayer"
    /\ userSessions' = removePlayer(q.user, q.sid)
    /\ Reply(q)
    /\ UNCHANGED <<users, sports, sessions, now, view>>

----------------------------------------------------------------------------
\* PUT /sessions/:id and POST /sessions/:id/update

\* the update checks without the past-session check
UpdateRejection_noPastCheck(u, sid, body, errs) ==
    IF PlayerRouter(u) # "" THEN PlayerRouter(u)
    ELSE IF ~exists(sid) THEN "Session not found"
    ELSE IF ~isCreatorOrAdmin(sessions[sid], u) THEN "You can only edit your own sessions"
    ELSE IF errs # <<>> THEN Head(errs)
    ELSE IF body.playersNeeded < countPlayers(sid)
        THEN "Cannot reduce players needed below current joined count"
    ELSE ""

\* the update checks without the roster-size check
UpdateRejection_noCountCheck(u, sid, body, errs) ==
    IF PlayerRouter(u) # "" THEN PlayerRouter(u)
    ELSE IF ~exists(sid) THEN "Session not found"
    ELSE IF ~isCreatorOrAdmin(sessions[sid], u) THEN "You can only edit your own sessions"
    ELSE IF isPast(sessions[sid]) THEN "Cannot edit past sessions"
    ELSE IF errs # <<>> THEN Head(errs)
    ELSE ""

\* the checks both routes make before session.update; errs is the route's
\* validationResult
UpdateRejection(u, sid, body, errs) ==
    IF PlayerRouter(u) # "" THEN PlayerRouter(u)
    ELSE IF ~exists(sid) THEN "Session not found"
    ELSE IF ~isCreatorOrAdmin(sessions[sid], u) THEN "You can only edit your own sessions"
    ELSE IF isPast(sessions[sid]) THEN "Cannot edit past sessions"
    ELSE IF errs # <<>> THEN Head(errs)
    ELSE IF body.playersNeeded < countPlayers(sid)
        THEN "Cannot reduce players needed below current joined count"
    ELSE ""

PutRejection(u, sid, body) == UpdateRejection(u, sid, body, ValidationErrors(body))
PostRejection(u, sid, body) == UpdateRejection(u, sid, body, NoValidationErrors(body))

\* PUT /sessions/:id, up to the await of session.update
UpdatePut(u, sid, body) ==
    /\ TakeEdit
    /\ IF PutRejection(u, sid, body) # ""
       THEN Reject
       ELSE Suspend(Request("put", u, sid, "update", 0, body))
    /\ UNCHANGED <<users, sports, sessions, userSessions, now, view>>

\* POST /sessions/:id/update, up to the await of session.update
UpdatePost(u, sid, body) ==
    /\ TakeEdit
    /\ IF PostRejection(u, sid, body) # ""
       THEN Reject
       ELSE Suspend(Request("post", u, sid, "update", 0, body))
    /\ UNCHANGED <<users, sports, sessions, userSessions, now, view>>

\* session.update(...) of either route
UpdateWriteFlash(q) ==
    IF ModelAccepts(q.body) THEN "Session updated successfully!"
    ELSE "Error updating session"

UpdateWrite(q) ==
    /\ q.kind \in {"put", "post"} /\ q.pc = "update"
    /\ IF ModelAccepts(q.body)
       THEN sessions' = [sessions EXCEPT ![q.sid] = updateSession(@, q.body)]
       ELSE UNCHANGED sessions
    /\ Reply(q)
    /\ UNCHANGED <<users, sports, userSessions, now, view>>

----------------------------------------------------------------------------
\* POST /sessions/:id/cancel

CancelRejection(u, sid, reason) ==
    IF PlayerRouter(u) # "" THEN PlayerRouter(u)
    ELSE IF ~exists(sid) THEN "Session not found"
    ELSE IF ~isCreatorOrAdmin(sessions[sid], u) THEN "You can only cancel your own sessions"
    ELSE IF ReasonErrors(reason) # <<>> THEN Head(ReasonErrors(reason))
    ELSE ""

\* ... up to the await of cancelSession
CancelLoad(u, sid, reason) ==
    /\ TakeEdit
    /\ IF CancelRejection(u, sid, reason) # ""
       THEN Reject
       ELSE Suspend(Request("cancel", u, sid, "cancelSession", 0,
                            [NoBody EXCEPT !.reason = reason]))
    /\ UNCHANGED <<users, sports, sessions, userSessions, now, view>>

CancelWriteFlash(q) == "session cancelled successfully"

\* session.cancelSession(req.body.reason.trim())
CancelWrite(q) ==
    /\ q.kind = "cancel" /\ q.pc = "cancelSession"
    /\ sessions' = [sessions EXCEPT ![q.sid] = cancelSession(@, trim(q.body.reason))]
    /\ Reply(q)
    /\ UNCHANGED <<users, sports, userSessions, now, view>>

----------------------------------------------------------------------------
Next ==
    \/ Tick
    \/ \E u \in Callers, body \in CreateBodies : Create(u, body)
    \/ \E u \in Callers, sid \in SessionIds : JoinLoad(u, sid)
    \/ \E q \in InFlight : JoinHasUserJoined(q)
    \/ \E q \in InFlight : JoinIsFull(q)
    \/ \E q \in InFlight : JoinAddPlayer(q)
    \/ \E u \in Callers, sid \in SessionIds : LeaveLoad(u, sid)
    \/ \E q \in InFlight : LeaveRemovePlayer(q)
    \/ \E u \in Callers, sid \in SessionIds, body \in UpdateBodies : UpdatePut(u, sid, body)
    \/ \E u \in Callers, sid \in SessionIds, body \in UpdateBodies : UpdatePost(u, sid, body)
    \/ \E q \in InFlight : UpdateWrite(q)
    \/ \E u \in Callers, sid \in SessionIds, reason \in ReasonInputs :
           CancelLoad(u, sid, reason)
    \/ \E q \in InFlight : CancelWrite(q)

Spec == Init /\ [][Next]_vars

----------------------------------------------------------------------------
\* The sport catalog (routes/admin.js), on its own: the admin routes read and
\* write the Sports table only.

SportIds == 1..MaxSports
\* the names a sport form submits: two names, the first once more after a
\* blank, one character short, one character too long
SportNames ==
    {<<"S", "S">>, <<" ", "S", "S">>, <<"T", "T">>,
     Rep("S", SportNameMin - 1), Rep("S", SportNameMax + 1)}
SportRequest(kind, u, id, pc, name) ==
    [kind |-> kind, user |-> u, id |-> id, pc |-> pc, name |-> name]

\* two admins and players, no sport yet
SportInit ==
    /\ users = <<[email |-> 0, role |-> "admin"], [email |-> 1, role |-> "admin"]>>
                \o [i \in 1..(NumPlayers - 1) |-> [email |-> i + 1, role |-> "player"]]
    /\ sports = <<>>
    /\ sessions = <<>>
    /\ userSessions = [p \in UserIds \X SessionIds |-> 0]
    /\ now = 1
    /\ req = EmptyBag
    /\ view = NoView

\* Sport.findOne({where: {name, adminId}})
findSportByName(name, adminId) ==
    {i \in 1..Len(sports) : sports[i].name = name /\ sports[i].adminId = adminId}

\* the validation chain of POST /admin/sports: the length, then the custom
\* validator's lookup of the admin's sport of that name
SportCreateErrors(u, name) ==
    (IF Len(trim(name)) < SportNameMin \/ Len(trim(name)) > SportNameMax
        THEN <<"Sport name must be between 2 and 50 characters">> ELSE <<>>)
    \o (IF findSportByName(trim(name), u) # {}
        THEN <<"You have already created a sport with this name">> ELSE <<>>)

SportCreateRejection(u, name) ==
    IF AdminRouter(u) # "" THEN AdminRouter(u)
    ELSE IF SportCreateErrors(u, name) # <<>> THEN Head(SportCreateErrors(u, name))
    ELSE ""

SportCreatesInFlight ==
    BagCardinality([q \in {e \in InFlight : e.kind = "sportCreate"} |-> req[q]])

\* POST /admin/sports, up to the await of Sport.create
SportCreateLoad(u, name) ==
    /\ Take
    /\ IF SportCreateRejection(u, name) # ""
       THEN Reject
       ELSE /\ Len(sports) + SportCreatesInFlight < MaxSports
            /\ Suspend(SportRequest("sportCreate", u, 0, "create", name))
    /\ UNCHANGED <<users, sports, sessions, userSessions, now, view>>

\* Sport.create({name: req.body.name.trim(), adminId: req.user.id})
SportCreateWrite(q) ==
    /\ q.kind = "sportCreate" /\ q.pc = "create"
    /\ sports' = Append(sports, [name |-> trim(q.name), adminId |-> q.user])
    /\ Reply(q)
    /\ UNCHANGED <<users, sessions, userSessions, now, view>>

\* the validation chain of PUT /admin/sports/:id: the length only
SportRenameErrors(name) ==
    IF Len(trim(name)) < SportNameMin \/ Len(trim(name)) > SportNameMax
    THEN <<"Sport name must be between 2 and 50 characters">> ELSE <<>>

\* the rename checks with the sport looked up by id alone
SportRenameRejection_anyAdmin(u, id, name) ==
    IF AdminRouter(u) # "" THEN AdminRouter(u)
    ELSE IF SportRenameErrors(name) # <<>> THEN Head(SportRenameErrors(name))
    ELSE IF id \notin 1..Len(sports) THEN "Sport not found"
    ELSE ""

SportRenameRejection(u, id, name) ==
    IF AdminRouter(u) # "" THEN AdminRouter(u)
    ELSE IF SportRenameErrors(name) # <<>> THEN Head(SportRenameErrors(name))
    ELSE IF id \notin 1..Len(sports) \/ sports[id].adminId # u THEN "Sport not found"
    ELSE ""

\* PUT /admin/sports/:id, up to the await of sport.update
SportRenameLoad(u, id, name) ==
    /\ Take
    /\ IF SportRenameRejection(u, id, name) # ""
       THEN Reject
       ELSE Suspend(SportRequest("sportRename", u, id, "update", name))
    /\ UNCHANGED <<users, sports, sessions, userSessions, now, view>>

\* sport.update({name: req.body.name.trim()})
SportRenameWrite(q) ==
    /\ q.kind = "sportRename" /\ q.pc = "update"
    /\ sports' = [sports EXCEPT ![q.id].name = trim(q.name)]
    /\ Reply(q)
    /\ UNCHANGED <<users, sessions, userSessions, now, view>>

SportNext ==
    \/ \E u \in Callers, name \in SportNames : SportCreateLoad(u, name)
    \/ \E q \in InFlight : SportCreateWrite(q)
    \/ \E u \in Callers, id \in SportIds, name \in SportNames :
           SportRenameLoad(u, id, name)
    \/ \E q \in InFlight : SportRenameWrite(q)

SportSpec == SportInit /\ [][SportNext]_vars

----------------------------------------------------------------------------
\* Signup (routes/auth.js, models/user.js), together with the sport catalog:
\* the Users table starts empty and grows by signups; every user that exists
\* may be the caller of a request, and so may a caller without a login.

\* String.prototype.toLowerCase on the letters the forms use
ToLower(c) == IF c = "A" THEN "a" ELSE IF c = "B" THEN "b" ELSE c
toLowerCase(str) == [i \in 1..Len(str) |-> ToLower(str[i])]
\* isEmail: a local part, "@" and a domain
isEmail(str) == \E i \in 2..(Len(str) - 1) : str[i] = "@"
\* normalizeEmail lowercases the address (its provider-specific rewriting
\* does not apply to the addresses the forms use)
normalizeEmail(str) == toLowerCase(str)

\* User.isAdmin, User.isPlayer
isAdmin(user) == user.role = "admin"
isPlayer(user) == user.role = "player"

SignupBody(name, email, password, confirmPassword, role) ==
    [name |-> name, email |-> email, password |-> password,
     confirmPassword |-> confirmPassword, role |-> role]
\* the bodies the signup form submits: three addresses, two of them equal
\* but for the case, in both roles; besides, one body for each single flaw
SignupBodies ==
    { SignupBody(<<"N", "N">>, email, Rep("p", PasswordMin), Rep("p", PasswordMin), role) :
        email \in {<<"a", "@", "x">>, <<"A", "@", "x">>, <<"b", "@", "x">>},
        role \in {"player", "admin"} }
    \cup { SignupBody(<<"N">>, <<"b", "@", "x">>, Rep("p", PasswordMin), Rep("p", PasswordMin), "player"),
           SignupBody(<<"N", "N">>, <<"b">>, Rep("p", PasswordMin), Rep("p", PasswordMin), "player"),
           SignupBody(<<"N", "N">>, <<"b", "@", "x">>, Rep("p", PasswordMin - 1), Rep("p", PasswordMin - 1), "player"),
           SignupBody(<<"N", "N">>, <<"b", "@", "x">>, Rep("p", PasswordMin), Rep("q", PasswordMin), "player"),
           SignupBody(<<"N", "N">>, <<"b", "@", "x">>, Rep("p", PasswordMin), Rep("p", PasswordMin), "coach") }

AuthInit ==
    /\ users = <<>>
    /\ sports = <<>>
    /\ sessions = <<>>
    /\ userSessions = [p \in UserIds \X SessionIds |-> 0]
    /\ now = 1
    /\ req = EmptyBag
    /\ view = NoView

\* ensureNotAuthenticated: a logged-in caller is sent to the dashboard
ensureNotAuthenticated(u) ==
    IF u = 0 THEN ""
    ELSE IF users[u].role = "admin" THEN "/admin/dashboard" ELSE "/player/dashboard"

\* User.findOne({where: {email}})
findUserByEmail(email) == {i \in 1..Len(users) : users[i].email = email}

\* the validation chain of POST /auth/signup
SignupErrors(body) ==
    (IF Len(trim(body.name)) < UserNameMin \/ Len(trim(body.name)) > UserNameMax
        THEN <<"Name must be between 2 and 100 characters">> ELSE <<>>)
    \o (IF ~isEmail(body.email) THEN <<"Please enter a valid email">> ELSE <<>>)
    \o (IF findUserByEmail(normalizeEmail(body.email)) # {}
        THEN <<"Email already in use">> ELSE <<>>)
    \o (IF Len(body.password) < PasswordMin
        THEN <<"Password must be at least 6 characters long">> ELSE <<>>)
    \o (IF body.confirmPassword # body.password
        THEN <<"Passwords do not match">> ELSE <<>>)
    \o (IF body.role \notin {"player", "admin"}
        THEN <<"Please select a valid role">> ELSE <<>>)

SignupRejection(u, body) ==
    IF ensureNotAuthenticated(u) # "" THEN ensureNotAuthenticated(u)
    ELSE IF SignupErrors(body) # <<>> THEN Head(SignupErrors(body))
    ELSE ""

SignupsInFlight ==
    BagCardinality([q \in {e \in InFlight : e.kind = "signup"} |-> req[q]])

\* POST /auth/signup, up to the awaits of User.createUser
SignupLoad(u, body) ==
    /\ Take
    /\ IF SignupRejection(u, body) # ""
       THEN Reject
       ELSE /\ Len(users) + SignupsInFlight < NumPlayers + 1
            /\ Suspend([kind |-> "signup", user |-> u, pc |-> "createUser",
                        body |-> body])
    /\ UNCHANGED <<users, sports, sessions, userSessions, now, view>>

\* the Users table without the unique index on email
users_email_unique_dropped(email) == TRUE

\* email: {unique: true} of User.init
users_email_unique(email) == findUserByEmail(email) = {}

\* the row User.create stores (name and password hash are left out: no
\* handler of the model reads them)
NewUser(body) == [email |-> toLowerCase(body.email), role |-> body.role]

\* ... the answer of the write: the welcome after the auto-login, or the
\* catch block's message for SequelizeUniqueConstraintError
SignupWriteFlash(q) ==
    IF users_email_unique(toLowerCase(q.body.email))
    THEN "Welcome to Sports Scheduler" ELSE "Email already in use"

\* User.createUser({name, email: email.toLowerCase(), password, role})
SignupWrite(q) ==
    /\ q.kind = "signup" /\ q.pc = "createUser"
    /\ IF users_email_unique(toLowerCase(q.body.email))
       THEN users' = Append(users, NewUser(q.body))
       ELSE UNCHANGED users
    /\ Reply(q)
    /\ UNCHANGED <<sports, sessions, userSessions, now, view>>

AuthNext ==
    \/ \E u \in 0..Len(users), body \in SignupBodies : SignupLoad(u, body)
    \/ \E q \in InFlight : SignupWrite(q)
    \/ \E u \in 0..Len(users), name \in SportNames : SportCreateLoad(u, name)
    \/ \E q \in InFlight : SportCreateWrite(q)
    \/ \E u \in 0..Len(users), id \in SportIds, name \in SportNames :
           SportRenameLoad(u, id, name)
    \/ \E q \in InFlight : SportRenameWrite(q)

AuthSpec == AuthInit /\ [][AuthNext]_vars

----------------------------------------------------------------------------
\* The pages that list sessions: the player dashboard and the session browser
\* (routes/player.js) and the admin reports (routes/admin.js).  Their
\* handlers read the tables and render a page; no route writes meanwhile.

ViewIds == 1..ViewRows
limit == 10                   \* page size of the session browser
DashboardShown == 6           \* availableSessions.slice(0, 6)
NoFilter == 0                 \* req.query.sport not given

\* A Sessions table of ViewRows rows.  Creators go round the users; every
\* sportEvery-th row is of the last sport, the first pastRows rows are on day
\* 0 and the others on the last day, every cancelEvery-th row is cancelled.
ViewSession(i, sportEvery, pastRows, cancelEvery) ==
    [sportId |-> IF i % sportEvery = 0 THEN MaxSports ELSE 1,
     creatorId |-> (i % (NumPlayers + 1)) + 1,
     date |-> IF i <= pastRows THEN 0 ELSE MaxDay,
     time |-> i % TimesPerDay,
     venue |-> <<"A", "B">>,
     playersNeeded |-> PlayersNeededInputs,
     status |-> IF i % cancelEvery = 0 THEN "cancelled" ELSE "active",
     cancellationReason |-> IF i % cancelEvery = 0 THEN Rep("x", ReasonMin) ELSE NoReason]

\* ... and its rosters: user u is on the roster of every row i of another
\* creator with i + u a multiple of joinEvery.
ViewRoster(joinEvery) ==
    [p \in UserIds \X ViewIds |->
        IF p[1] # (p[2] % (NumPlayers + 1)) + 1 /\ (p[1] + p[2]) % joinEvery = 0
        THEN 1 ELSE 0]

\* the Sports tables: two sports of two admins, with different names or with
\* the same name (names are unique per admin only)
ViewSports ==
    { [i \in 1..MaxSports |-> [name |-> Rep("S", SportNameMin + (i - 1) * d),
                               adminId |-> IF i = 1 THEN 1 ELSE 2]] : d \in {0, 1} }

ViewInit ==
    /\ users = <<[email |-> 0, role |-> "admin"], [email |-> 1, role |-> "admin"]>>
                \o [i \in 1..(NumPlayers - 1) |-> [email |-> i + 1, role |-> "player"]]
    /\ sports \in ViewSports
    /\ \E sportEvery \in {2, ViewRows + 1}, pastRows \in {0, 3},
          cancelEvery \in {4, ViewRows + 1} :
          sessions = [i \in ViewIds |-> ViewSession(i, sportEvery, pastRows, cancelEvery)]
    /\ \E joinEvery \in {2, 5} : userSessions = ViewRoster(joinEvery)
    /\ now \in {1, LastNow}
    /\ req = EmptyBag
    /\ view = NoView

\* ORDER BY key: the rows of S by ascending key.  The query names no order
\* among rows of equal key: they come as the plan of the query produces
\* them, here by ascending or by descending id.
TiePlans == {"asc", "desc"}
Before(a, b, key, plan) ==
    \/ key[a] < key[b]
    \/ key[a] = key[b] /\ (IF plan = "asc" THEN a < b ELSE a > b)
OrderBy(S, key, plan) ==
    LET rank == [a \in S |-> Cardinality({b \in S : Before(b, a, key, plan)})]
    IN  [r \in 1..Cardinality(S) |-> CHOOSE a \in S : rank[a] = r - 1]

\* order: [['date', 'ASC'], ['time', 'ASC']] and order: [['date', 'DESC']]
dateTimeAsc == [sid \in 1..Len(sessions) |-> sessionDateTime(sessions[sid])]
dateDesc == [sid \in 1..Len(sessions) |-> 0 - sessions[sid].date]

\* Array.prototype.slice(0, n); LIMIT n OFFSET k
min(a, b) == IF a <= b THEN a ELSE b
slice(seq, n) == SubSeq(seq, 1, min(n, Len(seq)))
limitOffset(seq, n, k) == SubSeq(seq, k + 1, min(k + n, Len(seq)))
SeqToSet(seq) == {seq[i] : i \in 1..Len(seq)}

\* new Date().toISOString().split('T')[0]
today == DateOf(now)

----------------------------------------------------------------------------
\* GET /player/dashboard

createdSessions(u, plan) ==
    OrderBy({i \in 1..Len(sessions) : sessions[i].creatorId = u}, dateTimeAsc, plan)
joinedSessions(u, plan) ==
    OrderBy({i \in 1..Len(sessions) : hasUserJoined(i, u)}, dateTimeAsc, plan)
availableSessions(u, plan) ==
    OrderBy({i \in 1..Len(sessions) :
                sessions[i].creatorId # u /\ sessions[i].status = "active"},
            dateTimeAsc, plan)

\* the candidates without the filter on the sessions already joined
filteredAvailableSessions_unfiltered(u, plan) == availableSessions(u, plan)

filteredAvailableSessions(u, plan) ==
    LET joinedSessionIds == SeqToSet(joinedSessions(u, plan))
    IN  SelectSeq(availableSessions(u, plan), LAMBDA i : i \notin joinedSessionIds)

upcoming(seq) == SelectSeq(seq, LAMBDA i : sessions[i].date >= today)
past(seq) == SelectSeq(seq, LAMBDA i : sessions[i].date < today)

DashboardView(u, plan) ==
    LET created == createdSessions(u, plan)
        joined == joinedSessions(u, plan)
    IN  [kind |-> "dashboard", user |-> u,
         upcomingCreated |-> upcoming(created),
         pastCreated |-> past(created),
         upcomingJoined |-> upcoming(joined),
         pastJoined |-> past(joined),
         availableSessions |-> slice(filteredAvailableSessions(u, plan), DashboardShown)]

Dashboard(u, plan) ==
    /\ view' = IF PlayerRouter(u) # "" THEN NoView ELSE DashboardView(u, plan)
    /\ UNCHANGED <<users, sports, sessions, userSessions, now, req>>

----------------------------------------------------------------------------
\* GET /player/sessions

\* the rows of the query: active sessions, of the sport of the filter when
\* one is given
browseRows(sportFilter) ==
    {i \in 1..Len(sessions) :
        /\ sessions[i].status = "active"
        /\ sportFilter # NoFilter => sessions[i].sportId = sportFilter}

\* count of findAndCountAll: the rows of the join with the rosters, one per
\* player of a session and one for a session without players
RECURSIVE browseCount(_)
browseCount(S) ==
    IF S = {} THEN 0
    ELSE LET i == CHOOSE x \in S : TRUE
         IN max(1, countPlayers(i)) + browseCount(S \ {i})

\* Math.ceil(count / limit)
totalPages(count) == (count + limit - 1) \div limit

browsePage(sportFilter, page, plan) ==
    limitOffset(OrderBy(browseRows(sportFilter), dateTimeAsc, plan),
                limit, (page - 1) * limit)

\* the page is asked for by its number: page 1, or the next page of the
\* listing rendered last (link hasNext of the same user and filter)
FollowsView(u, sportFilter, page) ==
    /\ view.kind = "sessions"
    /\ view.user = u
    /\ view.currentSportFilter = sportFilter
    /\ view.hasNext
    /\ page = view.currentPage + 1

\* pages: the pages rendered one after the other since page 1
BrowseView(u, sportFilter, page, plan) ==
    LET rows == browsePage(sportFilter, page, plan)
        count == browseCount(browseRows(sportFilter))
    IN  [kind |-> "sessions", user |-> u,
         sessions |-> rows,
         joinedSessionIds |-> {i \in 1..Len(sessions) : hasUserJoined(i, u)},
         currentSportFilter |-> sportFilter,
         currentPage |-> page,
         totalPages |-> totalPages(count),
         hasNext |-> page < totalPages(count),
         pages |-> IF page = 1 THEN <<rows>> ELSE Append(view.pages, rows)]

Browse(u, sportFilter, page, plan) ==
    /\ page = 1 \/ FollowsView(u, sportFilter, page)
    /\ view' = IF PlayerRouter(u) # "" THEN NoView
               ELSE BrowseView(u, sportFilter, page, plan)
    /\ UNCHANGED <<users, sports, sessions, userSessions, now, req>>

----------------------------------------------------------------------------
\* GET /sessions/:id

\* canJoin that does not look at the status
canJoin_ignoresStatus(u, sid) ==
    /\ ~isPast(sessions[sid])
    /\ ~hasUserJoined(sid, u)
    /\ sessions[sid].creatorId # u
    /\ getAvailableSlots(sid, sessions[sid].playersNeeded) > 0

canJoin(u, sid) ==
    /\ ~isPast(sessions[sid])
    /\ ~hasUserJoined(sid, u)
    /\ sessions[sid].creatorId # u
    /\ getAvailableSlots(sid, sessions[sid].playersNeeded) > 0
    /\ sessions[sid].status = "active"

SessionView(u, sid) ==
    [kind |-> "view", user |-> u, id |-> sid,
     hasJoined |-> hasUserJoined(sid, u),
     availableSlots |-> getAvailableSlots(sid, sessions[sid].playersNeeded),
     isOwner |-> sessions[sid].creatorId = u,
     canJoin |-> canJoin(u, sid)]

SessionDetail(u, sid) ==
    /\ view' = IF PlayerRouter(u) # "" \/ ~exists(sid) THEN NoView
               ELSE SessionView(u, sid)
    /\ UNCHANGED <<users, sports, sessions, userSessions, now, req>>

----------------------------------------------------------------------------
\* GET /admin/reports

\* Session.findAll({where: {date: {[Op.between]: [start, end]}},
\*                  order: [['date', 'DESC']]})
reportSessions(start, end, plan) ==
    OrderBy({i \in 1..Len(sessions) :
                sessions[i].date >= start /\ sessions[i].date <= end},
            dateDesc, plan)

sportName(sid) == sports[sessions[sid].sportId].name

\* the keys of sportStats, in the order they were inserted
sportStatsKeys(seq) ==
    LET first == SelectSeq([k \in 1..Len(seq) |-> k],
                           LAMBDA k : \A j \in 1..(k - 1) : sportName(seq[j]) # sportName(seq[k]))
    IN  [j \in 1..Len(first) |-> sportName(seq[first[j]])]

sessionCountOf(seq, name) == Cardinality({k \in 1..Len(seq) : sportName(seq[k]) = name})

RECURSIVE Sum(_)
Sum(seq) == IF seq = <<>> THEN 0 ELSE Head(seq) + Sum(Tail(seq))

\* totalPlayers that counts each player of the sport once
totalPlayersOf_distinct(seq, name) ==
    Cardinality({u \in UserIds :
        \E k \in 1..Len(seq) : sportName(seq[k]) = name /\ hasUserJoined(seq[k], u)})

\* totalPlayers += session.players.length
totalPlayersOf(seq, name) ==
    Sum([k \in 1..Len(seq) |->
            IF sportName(seq[k]) = name THEN countPlayers(seq[k]) ELSE 0])

\* Object.values(sportStats)
sportStats(seq) ==
    LET keys == sportStatsKeys(seq)
    IN  [j \in 1..Len(keys) |->
            [name |-> keys[j],
             sessionCount |-> sessionCountOf(seq, keys[j]),
             totalPlayers |-> totalPlayersOf(seq, keys[j])]]

\* .sort((a, b) => b.sessionCount - a.sessionCount): stable
sortBySessionCount(stats) ==
    LET st == stats
    IN  [r \in 1..Len(st) |->
            st[CHOOSE k \in 1..Len(st) :
                  Cardinality({j \in 1..Len(st) :
                      \/ st[j].sessionCount > st[k].sessionCount
                      \/ st[j].sessionCount = st[k].sessionCount /\ j < k}) = r - 1]]

ReportsView(start, end, plan) ==
    LET rows == reportSessions(start, end, plan)
    IN  [kind |-> "reports", start |-> start, end |-> end,
         sessions |-> rows,
         sportPopularity |-> sortBySessionCount(sportStats(rows))]

Reports(u, start, end, plan) ==
    /\ view' = IF AdminRouter(u) # "" THEN NoView ELSE ReportsView(start, end, plan)
    /\ UNCHANGED <<users, sports, sessions, userSessions, now, req>>

ViewNext ==
    \/ \E u \in Callers, plan \in TiePlans : Dashboard(u, plan)
    \/ \E u \in Callers, sportFilter \in {NoFilter} \cup SportIds,
          page \in 1..(ViewRows \div limit + 2), plan \in TiePlans :
           Browse(u, sportFilter, page, plan)
    \/ \E u \in Callers, start \in Dates, end \in Dates, plan \in TiePlans :
           Reports(u, start, end, plan)
    \/ \E u \in Callers, sid \in 1..(ViewRows + 1) : SessionDetail(u, sid)

ViewSpec == ViewInit /\ [][ViewNext]_vars

----------------------------------------------------------------------------
\* Properties

Active(sid) == exists(sid) /\ sessions[sid].status = "active"
Cancelled(sid) == exists(sid) /\ sessions[sid].status = "cancelled"
Past(sid) == exists(sid) /\ isPast(sessions[sid])
\* the step takes request q past its checks: q is in flight after it, and
\* was not (or not as often) before
Suspends(q) == CopiesIn(q, req') > CopiesIn(q, req)
isUpdate(q) == q.kind \in {"put", "post"}

\* C1: in every reachable state every session has at most playersNeeded
\* roster rows.
C1_RosterWithinCapacity ==
    \A sid \in SessionIds :
        exists(sid) => countPlayers(sid) <= sessions[sid].playersNeeded

\* C2: a join that passed the capacity check while one slot was free and
\* reaches its write after another user took that slot (the session is
\* active and not past, its playersNeeded is the one the join loaded, the
\* roster is full) is rejected at the write: it adds no row, it is answered
\* "This session is full", and the roster stays at playersNeeded rows.
C2_LastSlotRace ==
    [][\A q \in InFlight :
          ( /\ q.kind = "join" /\ q.pc = "addPlayer"
            /\ Active(q.sid) /\ ~Past(q.sid)
            /\ ~hasUserJoined(q.sid, q.user)
            /\ q.playersNeeded = sessions[q.sid].playersNeeded
            /\ countPlayers(q.sid) = sessions[q.sid].playersNeeded
            /\ JoinAddPlayer(q) )
          => /\ userSessions' = userSessions
             /\ JoinAddPlayerFlashes(q) = {"This session is full"}]_vars

\* C3: in every reachable state there is at most one roster row per
\* (user, session) pair.
C3_OneRowPerPair ==
    \A u \in UserIds, sid \in SessionIds : userSessions[<<u, sid>>] <= 1

\* the user's row is there while a second join of the same user, which passed
\* the already-joined check, is about to write
C3_Witness ==
    \E q \in InFlight :
        /\ q.kind = "join" /\ q.pc = "addPlayer"
        /\ userSessions[<<q.user, q.sid>>] = 1

C4_NoCreatorInRoster ==
    \A sid \in SessionIds : exists(sid) => ~hasUserJoined(sid, sessions[sid].creatorId)

\* no join request of a session's creator has passed the checks
C4_NoCreatorJoinInFlight ==
    \A q \in InFlight :
        (q.kind = "join" /\ exists(q.sid)) => q.user # sessions[q.sid].creatorId

\* C4 as stated: no roster contains the session's creator, and a join by the
\* creator is answered "You cannot join your own session" and goes no
\* further, in every session state.
C4_CreatorOwnSessionReason ==
    /\ C4_NoCreatorInRoster
    /\ C4_NoCreatorJoinInFlight
    /\ \A sid \in SessionIds :
          exists(sid) => JoinRejection(sessions[sid].creatorId, sid)
                            = "You cannot join your own session"

\* C4 amended: no roster contains the session's creator, and a join by the
\* creator is rejected and goes no further in every session state; the
\* answer is "You cannot join your own session" when the session is active
\* and not past.
C4_CreatorNeverJoins ==
    /\ C4_NoCreatorInRoster
    /\ C4_NoCreatorJoinInFlight
    /\ \A sid \in SessionIds :
          exists(sid) =>
            /\ JoinRejection(sessions[sid].creatorId, sid) # ""
            /\ (Active(sid) /\ ~Past(sid))
                 => JoinRejection(sessions[sid].creatorId, sid)
                       = "You cannot join your own session"

\* an active session that is not past and has a roster, while the server can
\* take its creator's join
C4_Witness ==
    \E sid \in SessionIds :
        Active(sid) /\ ~Past(sid) /\ countPlayers(sid) >= 1 /\ Take

\* C5: a join request on a past session is answered "Cannot join past
\* sessions", whoever asks and whatever the status and the roster, and never
\* gets past its checks towards the roster write.
C5_JoinPastRejected ==
    /\ [](\A u \in UserIds, sid \in SessionIds :
            Past(sid) => JoinRejection(u, sid) = "Cannot join past sessions")
    /\ [][\A q \in BagToSet(req') :
            (q.kind = "join" /\ q.pc = "hasUserJoined" /\ Suspends(q))
            => ~Past(q.sid)]_vars

\* a past, cancelled session with a roster, while the server can take a join
C5_Witness ==
    \E sid \in SessionIds :
        Past(sid) /\ Cancelled(sid) /\ countPlayers(sid) >= 1 /\ Take

\* C6: an update request (either route, any caller) on a session that is
\* past when the request is made is rejected: the handler never gets past its
\* checks to session.update (the step changes nothing).
C6_UpdatePastRejected ==
    [][\A q \in BagToSet(req') :
          (isUpdate(q) /\ Suspends(q)) => ~Past(q.sid)]_vars

\* a past session, while the server can take an update
C6_Witness == \E sid \in SessionIds : Past(sid) /\ Active(sid) /\ TakeEdit

\* C7: a cancel request on a session that is past when the request is made
\* fails: it is rejected, no write is awaited, status and cancellationReason
\* stay.
C7_CancelPastRejected ==
    [][\A u \in UserIds, sid \in SessionIds, reason \in ReasonInputs :
          (Past(sid) /\ CancelLoad(u, sid, reason))
          => /\ CancelRejection(u, sid, reason) # ""
             /\ UNCHANGED <<sessions, req>>]_vars

\* C8: a leave request by a user on the roster is never rejected, in every
\* session state, and its write removes the user's row and is answered
\* "Successfully left".
C8_LeaveAlwaysSucceeds ==
    /\ [](\A u \in UserIds, sid \in SessionIds :
            (exists(sid) /\ hasUserJoined(sid, u)) => LeaveRejection(u, sid) = "")
    /\ [][\A q \in InFlight :
            LeaveRemovePlayer(q)
            => /\ ~hasUserJoined(q.sid, q.user)'
               /\ LeaveRemovePlayerFlash(q) = "Successfully left"]_vars

\* a user on the roster of a past, cancelled session is about to be removed
C8_Witness ==
    \E q \in InFlight :
        /\ q.kind = "leave" /\ q.pc = "removePlayer"
        /\ Past(q.sid) /\ Cancelled(q.sid) /\ hasUserJoined(q.sid, q.user)

\* C9: an update request (either route) whose playersNeeded is below the
\* current roster size is rejected: the handler never gets past its checks
\* to session.update (the step changes nothing).
C9_UpdateBelowRosterRejected ==
    [][\A q \in BagToSet(req') :
          (isUpdate(q) /\ Suspends(q))
          => q.body.playersNeeded >= countPlayers(q.sid)]_vars

\* an active session that is not past and holds two roster rows, while the
\* server can take an update (one naming playersNeeded = 1 passes every
\* check before the roster-size check)
C9_Witness ==
    \E sid \in SessionIds :
        Active(sid) /\ ~Past(sid) /\ countPlayers(sid) >= 2 /\ TakeEdit

\* C10: a cancel request on a session that is already cancelled is answered
\* "Session is already cancelled" and does not go on to overwrite the stored
\* cancellationReason.
C10_CancelCancelledRejected ==
    [][\A u \in UserIds, sid \in SessionIds, reason \in ReasonInputs :
          (Cancelled(sid) /\ CancelLoad(u, sid, reason))
          => /\ CancelRejection(u, sid, reason) = "Session is already cancelled"
             /\ UNCHANGED <<sessions, req>>]_vars

\* C11 as stated: a cancel request (by the creator or an admin, on a session
\* that exists) whose reason is shorter than 10 or longer than 500 characters
\* is answered with the validation message.
C11_BadReasonByLength ==
    \A u \in UserIds, sid \in SessionIds, reason \in ReasonInputs :
        ( /\ exists(sid) /\ isCreatorOrAdmin(sessions[sid], u)
          /\ (Len(reason) < ReasonMin \/ Len(reason) > ReasonMax) )
        => CancelRejection(u, sid, reason)
              = "Cancellation reason must be between 10 and 500 characters"

\* C11 amended: a cancel request whose reason, once trimmed, is shorter than
\* 10 or longer than 500 characters is rejected, with the validation message
\* when the session exists and the caller is its creator or an admin, and
\* never gets to the write of status and cancellationReason.
C11_BadReasonRejected ==
    /\ [](\A u \in UserIds, sid \in SessionIds, reason \in ReasonInputs :
            (Len(trim(reason)) < ReasonMin \/ Len(trim(reason)) > ReasonMax)
            => /\ CancelRejection(u, sid, reason) # ""
               /\ (exists(sid) /\ isCreatorOrAdmin(sessions[sid], u))
                    => CancelRejection(u, sid, reason)
                         = "Cancellation reason must be between 10 and 500 characters")
    /\ [][\A q \in BagToSet(req') :
            (q.kind = "cancel" /\ Suspends(q))
            => /\ Len(trim(q.body.reason)) >= ReasonMin
               /\ Len(trim(q.body.reason)) <= ReasonMax]_vars

\* an active session with a roster, while the server can take a cancel
C11_Witness ==
    \E sid \in SessionIds : Active(sid) /\ countPlayers(sid) >= 1 /\ TakeEdit

\* C12: a status only ever goes from active to cancelled: a new session is
\* active, and every step leaves a status as it is or takes it from active
\* to cancelled.
C12_StatusMonotonic ==
    [][\A sid \in SessionIds :
          (sid \in 1..Len(sessions'))
          => IF exists(sid)
             THEN \/ sessions'[sid].status = sessions[sid].status
                  \/ /\ sessions[sid].status = "active"
                     /\ sessions'[sid].status = "cancelled"
             ELSE sessions'[sid].status = "active"]_vars

\* an update is about to write a cancelled session
C12_Witness ==
    \E q \in InFlight : isUpdate(q) /\ q.pc = "update" /\ Cancelled(q.sid)

\* C13 as stated: the write of a cancel by the creator of an active session
\* that is not past sets status to cancelled, stores the submitted reason
\* verbatim and leaves the roster and the other fields alone.
C13_CancelStoresVerbatim ==
    [][\A q \in InFlight :
          ( /\ q.kind = "cancel" /\ Active(q.sid) /\ ~Past(q.sid)
            /\ q.user = sessions[q.sid].creatorId
            /\ CancelWrite(q) )
          => /\ sessions'[q.sid] =
                   [sessions[q.sid] EXCEPT !.status = "cancelled",
                                           !.cancellationReason = q.body.reason]
             /\ userSessions' = userSessions]_vars

\* C13 amended: ... stores the submitted reason without its leading and
\* trailing blanks.
C13_CancelStoresTrimmed ==
    [][\A q \in InFlight :
          ( /\ q.kind = "cancel" /\ Active(q.sid) /\ ~Past(q.sid)
            /\ q.user = sessions[q.sid].creatorId
            /\ CancelWrite(q) )
          => /\ sessions'[q.sid] =
                   [sessions[q.sid] EXCEPT !.status = "cancelled",
                                           !.cancellationReason = trim(q.body.reason)]
             /\ userSessions' = userSessions]_vars

\* the creator's cancel, its reason ending in a blank, is about to write an
\* active session that is not past and has a roster
C13_Witness ==
    \E q \in InFlight :
        /\ q.kind = "cancel" /\ q.pc = "cancelSession"
        /\ Active(q.sid) /\ ~Past(q.sid) /\ countPlayers(q.sid) >= 1
        /\ q.user = sessions[q.sid].creatorId
        /\ q.body.reason # trim(q.body.reason)

\* C14 as stated: every join request on a cancelled session is answered
\* "Cannot join cancelled sessions".
C14_JoinCancelledReason ==
    \A u \in UserIds, sid \in SessionIds :
        Cancelled(sid) => JoinRejection(u, sid) = "Cannot join cancelled sessions"

\* C14 amended: every join request made on a cancelled session is rejected
\* and never gets past its checks towards the roster write, whoever asks and
\* whatever the roster; the answer is "Cannot join cancelled sessions" as
\* long as the session is not past.
C14_JoinCancelledRejected ==
    /\ [](\A u \in UserIds, sid \in SessionIds :
            Cancelled(sid)
            => /\ JoinRejection(u, sid) # ""
               /\ ~Past(sid)
                    => JoinRejection(u, sid) = "Cannot join cancelled sessions")
    /\ [][\A q \in BagToSet(req') :
            (q.kind = "join" /\ q.pc = "hasUserJoined" /\ Suspends(q))
            => ~Cancelled(q.sid)]_vars

\* a cancelled session that is not past and has a roster, while the server
\* can take a join
C14_Witness ==
    \E sid \in SessionIds :
        Cancelled(sid) /\ ~Past(sid) /\ countPlayers(sid) >= 1 /\ Take

\* C15: when an active session that is not past holds exactly playersNeeded
\* roster rows, isFull is true, a join request of a further user (not the
\* creator, not on the roster) passes the first checks and is answered "This
\* session is full" at the capacity check, and that step ends the request
\* and leaves the roster as it is.
C15_FullSessionRejectsJoin ==
    /\ [](\A sid \in SessionIds, u \in UserIds :
            ( /\ Active(sid) /\ ~Past(sid)
              /\ u # sessions[sid].creatorId /\ ~hasUserJoined(sid, u)
              /\ countPlayers(sid) = sessions[sid].playersNeeded )
            => /\ isFull(sid, sessions[sid].playersNeeded)
               /\ JoinRejection(u, sid) = ""
               /\ JoinIsFullFlash(Request("join", u, sid, "isFull",
                                          sessions[sid].playersNeeded, NoBody))
                    = "This session is full")
    /\ [][\A q \in InFlight :
            ( /\ q.kind = "join" /\ q.pc = "isFull"
              /\ q.playersNeeded = sessions[q.sid].playersNeeded
              /\ countPlayers(q.sid) = sessions[q.sid].playersNeeded
              /\ JoinIsFull(q) )
            => /\ userSessions' = userSessions
               /\ req' = req (-) SetToBag({q})]_vars

\* a further user's join is at its capacity check while the active session,
\* not past, holds playersNeeded roster rows
C15_Witness ==
    \E q \in InFlight :
        /\ q.kind = "join" /\ q.pc = "isFull"
        /\ Active(q.sid) /\ ~Past(q.sid) /\ ~hasUserJoined(q.sid, q.user)
        /\ q.playersNeeded = sessions[q.sid].playersNeeded
        /\ countPlayers(q.sid) = sessions[q.sid].playersNeeded

\* C16: no session is past at the instant it is created.
C16_NeverCreatedPast ==
    [][Len(sessions') > Len(sessions)
       => ~isPast(sessions'[Len(sessions')])]_vars

\* C17: a step that stores a session stores exactly one, after the others,
\* with status active, no cancellationReason, no roster row, the caller as
\* creator and a sport that exists; a create whose only flaw is a sport that
\* does not exist is answered "Selected sport not found" (and stores nothing).
C17_CreateStoresNewSession ==
    /\ [](\A u \in UserIds, body \in CreateBodies :
            (ValidationErrors(body) = <<>> /\ body.sportId \notin 1..Len(sports))
            => CreateFlash(u, body) = "Selected sport not found")
    /\ [][Len(sessions') # Len(sessions)
          => /\ Len(sessions') = Len(sessions) + 1
             /\ SubSeq(sessions', 1, Len(sessions)) = sessions
             /\ sessions'[Len(sessions')].status = "active"
             /\ sessions'[Len(sessions')].cancellationReason = NoReason
             /\ sessions'[Len(sessions')].sportId \in 1..Len(sports)
             /\ \A u \in UserIds : userSessions'[<<u, Len(sessions')>>] = 0
             /\ \E u \in UserIds, body \in CreateBodies :
                   /\ Create(u, body)
                   /\ sessions'[Len(sessions')].creatorId = u]_vars

\* a player's new session: active, no reason, no roster
C17_Witness ==
    \E sid \in SessionIds :
        /\ Active(sid) /\ countPlayers(sid) = 0
        /\ sessions[sid].cancellationReason = NoReason
        /\ users[sessions[sid].creatorId].role = "player"

\* C18: an update (either route) or cancel request by a caller who is
\* neither the session's creator nor an admin is answered "You can only
\* edit/cancel your own sessions" and never gets to a write; an admin's
\* request is never answered so, whoever created the session.
C18_OnlyCreatorOrAdminEdits ==
    /\ [](\A u \in UserIds, sid \in SessionIds :
            exists(sid)
            => IF sessions[sid].creatorId # u /\ users[u].role # "admin"
               THEN /\ \A body \in UpdateBodies :
                         /\ PutRejection(u, sid, body)
                              = "You can only edit your own sessions"
                         /\ PostRejection(u, sid, body)
                              = "You can only edit your own sessions"
                    /\ \A reason \in ReasonInputs :
                         CancelRejection(u, sid, reason)
                           = "You can only cancel your own sessions"
               ELSE /\ \A body \in UpdateBodies :
                         /\ PutRejection(u, sid, body)
                              # "You can only edit your own sessions"
                         /\ PostRejection(u, sid, body)
                              # "You can only edit your own sessions"
                    /\ \A reason \in ReasonInputs :
                         CancelRejection(u, sid, reason)
                           # "You can only cancel your own sessions")
    /\ [][\A q \in BagToSet(req') :
            (isEdit(q) /\ Suspends(q))
            => \/ q.user = sessions[q.sid].creatorId
               \/ users[q.user].role = "admin"]_vars

\* the admin's update or cancel of a player's session has passed its checks,
\* while a player who is not the creator can ask too
C18_Witness ==
    \E q \in InFlight :
        /\ isEdit(q) /\ users[q.user].role = "admin"
        /\ users[sessions[q.sid].creatorId].role = "player"
        /\ Take

\* C19: no update request (either route) made on a cancelled session gets
\* past its checks to session.update.
C19_CancelledImmutable ==
    [][\A q \in BagToSet(req') :
          (isUpdate(q) /\ Suspends(q)) => ~Cancelled(q.sid)]_vars

\* C20: in every reachable state no admin owns two sports of the same
\* (trimmed) name.
C20_SportNamesUniquePerAdmin ==
    \A i, j \in 1..Len(sports) :
        (i # j /\ sports[i].adminId = sports[j].adminId)
        => trim(sports[i].name) # trim(sports[j].name)

\* C23: a request without a login to any protected route (the session, player,
\* admin and sports routers) is answered by ensureAuthenticated ("Please log
\* in to access this page", with the redirect to /auth/login), whatever it
\* asks for, and no handler ever runs for it (so nothing is written).
C23_LoginRequired ==
    /\ \A q \in InFlight : q.user # 0
    /\ \A body \in CreateBodies :
          CreateFlash(0, body) = "Please log in to access this page"
    /\ \A sid \in SessionIds :
          /\ JoinRejection(0, sid) = "Please log in to access this page"
          /\ LeaveRejection(0, sid) = "Please log in to access this page"
          /\ \A body \in UpdateBodies :
                /\ PutRejection(0, sid, body) = "Please log in to access this page"
                /\ PostRejection(0, sid, body) = "Please log in to access this page"
          /\ \A reason \in ReasonInputs :
                CancelRejection(0, sid, reason) = "Please log in to access this page"
    /\ \A name \in SportNames :
          /\ SportCreateRejection(0, name) = "Please log in to access this page"
          /\ \A id \in SportIds :
                SportRenameRejection(0, id, name) = "Please log in to access this page"
    /\ SportsRouter(0) = "Please log in to access this page"

\* an active session, not past and not full, while the server can take a
\* request: a logged-in player's join would pass
C23_Witness ==
    \E sid \in SessionIds :
        /\ Active(sid) /\ ~Past(sid) /\ ~isFull(sid, sessions[sid].playersNeeded)
        /\ Take

\* C21: a rename request by anyone but the admin who owns the sport (another
\* admin included) is rejected and never gets to sport.update; the write of a
\* rename is the owner's and changes that sport's name only.
C21_OnlyOwnerRenames ==
    /\ [](\A u \in UserIds, id \in SportIds, name \in SportNames :
            (id \in 1..Len(sports) /\ sports[id].adminId # u)
            => SportRenameRejection(u, id, name) # "")
    /\ [][/\ \A q \in BagToSet(req') :
               (q.kind = "sportRename" /\ Suspends(q))
               => sports[q.id].adminId = q.user
          /\ \A q \in InFlight :
               SportRenameWrite(q)
               => /\ sports[q.id].adminId = q.user
                  /\ \A i \in 1..Len(sports) :
                        i # q.id => sports'[i] = sports[i]]_vars

\* a sport of one admin, another admin, and the server can take a request
C21_Witness ==
    \E id \in 1..Len(sports), u \in UserIds :
        /\ users[u].role = "admin" /\ sports[id].adminId # u
        /\ Take

\* C22: every sport's owner has the admin role; a sport create or rename
\* request of a player or of a caller without a login is rejected and never
\* gets to a write; no step changes a sport's owner or the role of a user
\* that exists.
C22_SportsOwnedByAdmins ==
    /\ [](/\ \A i \in 1..Len(sports) : isAdmin(users[sports[i].adminId])
          /\ \A u \in 0..Len(users), name \in SportNames :
                (u = 0 \/ isPlayer(users[u]))
                => /\ SportCreateRejection(u, name) # ""
                   /\ \A id \in SportIds : SportRenameRejection(u, id, name) # "")
    /\ [][/\ \A q \in BagToSet(req') :
               (q.kind \in {"sportCreate", "sportRename"} /\ Suspends(q))
               => (q.user # 0 /\ isAdmin(users[q.user]))
          /\ \A i \in 1..Len(sports) : sports'[i].adminId = sports[i].adminId
          /\ \A i \in 1..Len(users) : users'[i].role = users[i].role]_vars

\* an admin's sport, a player, and the server can take a request
C22_Witness ==
    /\ Len(sports) >= 1
    /\ \E u \in 1..Len(users) : isPlayer(users[u])
    /\ Take

\* C24: for every user exactly one of isAdmin() and isPlayer() is true,
\* isAdmin() iff the role is admin, isPlayer() iff the role is player;
\* ensurePlayer admits the user in either case, ensureAdmin iff isAdmin().
C24_RolesAndGuards ==
    \A u \in 1..Len(users) :
        /\ isAdmin(users[u]) # isPlayer(users[u])
        /\ isAdmin(users[u]) <=> users[u].role = "admin"
        /\ isPlayer(users[u]) <=> users[u].role = "player"
        /\ ensurePlayer(u) = ""
        /\ (ensureAdmin(u) = "") <=> isAdmin(users[u])

\* an admin and a player have signed up
C24_Witness ==
    \E u, v \in 1..Len(users) : isAdmin(users[u]) /\ isPlayer(users[v])

\* C25: no two users have the same email; the write of a signup whose email
\* another signup has taken meanwhile stores nothing and is answered "Email
\* already in use", any other write of a signup stores exactly one user.
C25_EmailsUnique ==
    /\ [](\A i, j \in 1..Len(users) : i # j => users[i].email # users[j].email)
    /\ [][\A q \in InFlight :
            SignupWrite(q)
            => IF findUserByEmail(toLowerCase(q.body.email)) # {}
               THEN /\ users' = users
                    /\ SignupWriteFlash(q) = "Email already in use"
               ELSE /\ users' = Append(users, NewUser(q.body))
                    /\ SignupWriteFlash(q) = "Welcome to Sports Scheduler"]_vars

\* a signup that passed the email check is about to write, and its email
\* (in another case) has been taken by a signup that wrote first
C25_Witness ==
    \E q \in InFlight :
        /\ q.kind = "signup" /\ q.pc = "createUser"
        /\ q.body.email # toLowerCase(q.body.email)
        /\ findUserByEmail(toLowerCase(q.body.email)) # {}

\* C26: for every playersNeeded and every roster, getAvailableSlots is
\* max(0, playersNeeded - roster size) and never negative, isFull holds iff
\* the roster size is at least playersNeeded, and isFull holds iff
\* getAvailableSlots is 0.
C26_SlotsAndFull ==
    \A sid \in 1..Len(sessions), playersNeeded \in PlayersMin..(NumPlayers + 2) :
        /\ getAvailableSlots(sid, playersNeeded)
             = (IF playersNeeded - countPlayers(sid) > 0
                THEN playersNeeded - countPlayers(sid) ELSE 0)
        /\ getAvailableSlots(sid, playersNeeded) >= 0
        /\ isFull(sid, playersNeeded) <=> countPlayers(sid) >= playersNeeded
        /\ isFull(sid, playersNeeded) <=> getAvailableSlots(sid, playersNeeded) = 0

\* a roster larger than the session's playersNeeded: the difference is
\* negative and Math.max decides
C26_Witness ==
    \E sid \in 1..Len(sessions) : countPlayers(sid) > sessions[sid].playersNeeded

\* C30: a session has a cancellationReason iff its status is cancelled, and
\* the reason of a cancelled session is 10 to 500 characters long.
C30_ReasonIffCancelled ==
    \A sid \in 1..Len(sessions) :
        /\ sessions[sid].cancellationReason # NoReason
             <=> sessions[sid].status = "cancelled"
        /\ sessions[sid].status = "cancelled"
             => /\ Len(sessions[sid].cancellationReason) >= ReasonMin
                /\ Len(sessions[sid].cancellationReason) <= ReasonMax

\* a cancelled session whose reason was submitted with a space around it and
\* is stored at the upper limit
C30_Witness ==
    \E sid \in 1..Len(sessions) :
        /\ sessions[sid].status = "cancelled"
        /\ Len(sessions[sid].cancellationReason) = ReasonMax

\* the sessions of a list in ascending order of date and time
IsAscending(seq) ==
    \A j, k \in 1..Len(seq) : j < k => dateTimeAsc[seq[j]] <= dateTimeAsc[seq[k]]
Occurrences(seq, x) == Cardinality({k \in 1..Len(seq) : seq[k] = x})
\* a list that one of the two buckets of the dashboard holds, and the right one
InOneBucket(i, upcomingList, pastList) ==
    /\ Occurrences(upcomingList, i) + Occurrences(pastList, i) = 1
    /\ Occurrences(upcomingList, i) = 1 <=> sessions[i].date >= today

\* C28: the dashboard's candidate list has at most 6 sessions, each active,
\* not created by the user and not joined by the user, in ascending order of
\* date and time; every session the user created is in exactly one of
\* upcomingCreated (date >= today) and pastCreated (date < today), and every
\* session the user joined in exactly one of upcomingJoined and pastJoined.
C28_Dashboard ==
    view.kind = "dashboard" =>
        /\ Len(view.availableSessions) <= 6
        /\ \A k \in 1..Len(view.availableSessions) :
             /\ sessions[view.availableSessions[k]].status = "active"
             /\ sessions[view.availableSessions[k]].creatorId # view.user
             /\ ~hasUserJoined(view.availableSessions[k], view.user)
        /\ IsAscending(view.availableSessions)
        /\ \A i \in 1..Len(sessions) :
             /\ sessions[i].creatorId = view.user
                  => InOneBucket(i, view.upcomingCreated, view.pastCreated)
             /\ hasUserJoined(i, view.user)
                  => InOneBucket(i, view.upcomingJoined, view.pastJoined)

\* a dashboard whose candidate list was cut to 6, of a user who joined an
\* active session of someone else and has created sessions of both buckets
C28_Witness ==
    /\ view.kind = "dashboard"
    /\ Len(view.availableSessions) = 6
    /\ Cardinality({i \in 1..Len(sessions) :
          /\ sessions[i].status = "active" /\ sessions[i].creatorId # view.user
          /\ ~hasUserJoined(i, view.user)}) > 6
    /\ \E i \in 1..Len(sessions) :
          sessions[i].status = "active" /\ hasUserJoined(i, view.user)
    /\ view.upcomingCreated # <<>> /\ view.pastCreated # <<>>
    /\ view.upcomingJoined # <<>>

RECURSIVE Flatten(_)
Flatten(seqs) == IF seqs = <<>> THEN <<>> ELSE Head(seqs) \o Flatten(Tail(seqs))

\* C29: the pages 1..totalPages of the session browser, read one after the
\* other under one sport filter, hold every active session of the filter
\* exactly once and no other session, in ascending order of date and time,
\* and a session is marked as joined iff the user is on its roster.
C29_BrowseExactlyOnce ==
    (view.kind = "sessions" /\ Len(view.pages) = view.totalPages) =>
        /\ \A i \in 1..Len(sessions) :
             Occurrences(Flatten(view.pages), i)
               = (IF i \in browseRows(view.currentSportFilter) THEN 1 ELSE 0)
        /\ IsAscending(Flatten(view.pages))
        /\ \A i \in 1..Len(sessions) :
             i \in view.joinedSessionIds <=> hasUserJoined(i, view.user)

\* the sessions of the report's date range
reportRange == {i \in 1..Len(sessions) :
                   sessions[i].date >= view.start /\ sessions[i].date <= view.end}
\* the place of a sport's first session in the report's list of sessions
FirstOf(name) ==
    CHOOSE k \in 1..Len(view.sessions) :
        /\ sportName(view.sessions[k]) = name
        /\ \A j \in 1..(k - 1) : sportName(view.sessions[j]) # name
SortedBySessionCount ==
    \A j, k \in 1..Len(view.sportPopularity) :
        j < k => \/ view.sportPopularity[j].sessionCount > view.sportPopularity[k].sessionCount
                 \/ /\ view.sportPopularity[j].sessionCount = view.sportPopularity[k].sessionCount
                    /\ FirstOf(view.sportPopularity[j].name) < FirstOf(view.sportPopularity[k].name)

C31_UpdateFrame ==
    [][/\ \A q \in InFlight :
            (UpdateWrite(q) /\ ModelAccepts(q.body))
            => /\ sessions'[q.sid].sportId = q.body.sportId
               /\ sessions'[q.sid].date = q.body.date
               /\ sessions'[q.sid].time = q.body.time
               /\ sessions'[q.sid].venue = trim(q.body.venue)
               /\ sessions'[q.sid].playersNeeded = q.body.playersNeeded
               /\ sessions'[q.sid].creatorId = sessions[q.sid].creatorId
               /\ sessions'[q.sid].status = sessions[q.sid].status
               /\ sessions'[q.sid].cancellationReason = sessions[q.sid].cancellationReason
               /\ \A i \in 1..Len(sessions) : i # q.sid => sessions'[i] = sessions[i]
               /\ Len(sessions') = Len(sessions)
               /\ userSessions' = userSessions
       /\ \A i \in 1..Len(sessions) : sessions'[i].creatorId = sessions[i].creatorId]_vars

\* an admin's update of a player's session is about to write: the session
\* has a roster row and every editable field is submitted with a new value
C31_Witness ==
    \E q \in InFlight :
        /\ isUpdate(q) /\ q.pc = "update" /\ ModelAccepts(q.body)
        /\ q.user # sessions[q.sid].creatorId
        /\ countPlayers(q.sid) >= 1
        /\ sessions[q.sid].sportId # q.body.sportId
        /\ sessions[q.sid].date # q.body.date
        /\ sessions[q.sid].time # q.body.time
        /\ sessions[q.sid].venue # trim(q.body.venue)
        /\ sessions[q.sid].playersNeeded # q.body.playersNeeded

\* the first of the conditions not found, past, cancelled, own session,
\* already joined, full that fails for user u and session sid
FirstFailingJoinCheck(u, sid) ==
    IF ~exists(sid) THEN "Session not found"
    ELSE IF Past(sid) THEN "Cannot join past sessions"
    ELSE IF Cancelled(sid) THEN "Cannot join cancelled sessions"
    ELSE IF sessions[sid].creatorId = u THEN "You cannot join your own session"
    ELSE IF userSessions[<<u, sid>>] > 0 THEN "You have already joined this session"
    ELSE IF countPlayers(sid) >= sessions[sid].playersNeeded THEN "This session is full"
    ELSE ""

C33_UpdateCheckAndWriteAtomic ==
    [][\A q \in InFlight :
          (/\ UpdateWrite(q) /\ ModelAccepts(q.body)
           /\ countPlayers(q.sid) <= sessions[q.sid].playersNeeded)
          => sessions'[q.sid].playersNeeded >= countPlayers(q.sid)']_vars

\* C34: no step adds a roster row to a session whose status is cancelled.
C34_NoJoinIntoCancelled ==
    [][\A u \in UserIds, sid \in SessionIds :
          Cancelled(sid) => userSessions'[<<u, sid>>] <= userSessions[<<u, sid>>]]_vars

\* C35: no update request (either route) passes its checks with a date and
\* time that lie before the moment of the request, so that no update leaves
\* a session past.
C35_UpdateNeverLeavesPast ==
    [][\A q \in BagToSet(req') :
          (isUpdate(q) /\ Suspends(q))
          => q.body.date * TimesPerDay + q.body.time >= now]_vars

\* C36: for every session, caller and submitted body, PUT /sessions/:id and
\* POST /sessions/:id/update either both end without a write of the session
\* or both write it (they write the same fields).
C36_UpdateRoutesEquivalent ==
    \A u \in UserIds, sid \in SessionIds, body \in UpdateBodies :
        exists(sid)
        => ((PutRejection(u, sid, body) = "" /\ ModelAccepts(body))
              <=> (PostRejection(u, sid, body) = "" /\ ModelAccepts(body)))

\* C37: the canJoin flag of the session detail page is true iff the checks
\* of a join request by the same user, made in the same state, all pass.
C37_CanJoinAgreesWithJoin ==
    view.kind = "view" => (view.canJoin <=> JoinChecks(view.user, view.id) = "")

\* a detail page with canJoin set, of a session that another user, on its
\* roster, sees without it
C37_Witness ==
    /\ view.kind = "view" /\ view.canJoin
    /\ \E u \in UserIds : hasUserJoined(view.id, u)

\* C39: every session of the dashboard's candidate list passes the checks
\* of a join request by the dashboard's user made in the same state (it is
\* neither past nor full).
C39_CandidatesJoinable ==
    view.kind = "dashboard" =>
        \A k \in 1..Len(view.availableSessions) :
            JoinChecks(view.user, view.availableSessions[k]) = ""

\* C38: addPlayerToSession adds a roster row only when the user exists, the
\* session is active, not past and not full, and the user is neither the
\* creator nor on the roster already; otherwise it throws.
C38_AddPlayerToSessionEligibility ==
    \A sid \in SessionIds, userId \in UserIds \cup {NumPlayers + 2} :
        exists(sid)
        => (addPlayerToSession(sid, userId) = ""
              <=> /\ userId \in 1..Len(users)
                  /\ Active(sid) /\ ~Past(sid)
                  /\ countPlayers(sid) < sessions[sid].playersNeeded
                  /\ sessions[sid].creatorId # userId
                  /\ userSessions[<<userId, sid>>] = 0)

\* C40: a leave request by a user who is not on the roster is answered "You
\* have not joined this session" and never gets to a write; the write of a
\* leave removes the caller's roster row of that session and changes no
\* other roster row and no session; after it the caller's join passes its
\* checks iff the session is active, not past, not full and not the
\* caller's own.
C40_LeaveFrame ==
    /\ [](\A u \in UserIds, sid \in SessionIds :
            (exists(sid) /\ ~hasUserJoined(sid, u))
            => LeaveRejection(u, sid) = "You have not joined this session")
    /\ [][/\ \A q \in BagToSet(req') :
               (q.kind = "leave" /\ Suspends(q)) => hasUserJoined(q.sid, q.user)
          /\ \A q \in InFlight :
               LeaveRemovePlayer(q)
               => /\ userSessions'[<<q.user, q.sid>>] = 0
                  /\ \A p \in DOMAIN userSessions :
                       p # <<q.user, q.sid>> => userSessions'[p] = userSessions[p]
                  /\ sessions' = sessions
                  /\ (JoinChecks(q.user, q.sid) = "")'
                       <=> /\ Active(q.sid) /\ ~Past(q.sid)
                           /\ sessions[q.sid].creatorId # q.user
                           /\ countPlayers(q.sid)' < sessions[q.sid].playersNeeded]_vars

\* a leave is about to write: the session is active and not past (the user
\* may join again), and another user is on its roster too
C40_Witness ==
    \E q \in InFlight :
        /\ q.kind = "leave" /\ q.pc = "removePlayer"
        /\ Active(q.sid) /\ ~Past(q.sid)
        /\ hasUserJoined(q.sid, q.user)
        /\ \E u \in UserIds : u # q.user /\ hasUserJoined(q.sid, u)
====
